---- MODULE Spec2Model ----
(***************************************************************************)
(* Model of the ami facial-emotion backend.                                *)
(*                                                                         *)
(*   python_backend/main.py      the FastAPI server: detect_emotion,       *)
(*                               predict_combined, load_classifier_pipeline*)
(*   python_backend/train/train.py   the offline script that fits the      *)
(*                               candidate classifiers and saves the best  *)
(*                                                                         *)
(* The external libraries (base64, OpenCV, DeepFace, scikit-learn, joblib) *)
(* are not modelled: what each of their calls returns or raises is an      *)
(* input of the step that makes the call, drawn from a small set.          *)
(*                                                                         *)
(* Floating point confidences are fixed-point numbers in units of          *)
(* 1/ConfOne, so 1.0 is ConfOne and 0.0 is 0.                              *)
(***************************************************************************)
EXTENDS Integers, Sequences, FiniteSets, TLC

VARIABLES
    joblib_ok,            \* main.py:23-26  the import of joblib succeeded
    disk,                 \* the file at CLASSIFIER_PATH / train.py's --output
    classifier_pipeline,  \* main.py:21     the global classifier_pipeline
    preloaded_models,     \* main.py:18     the keys of the dict preloaded_models
    startup,              \* the startup handler: position, and what it met
    request,              \* the request being answered, with what the libraries did
    response,             \* the answer to it, until the client has taken it
    calls,                \* the DeepFace calls made for that request, in order
    train,                \* the train.py process: position and local variables
    ovr                   \* the train_binary_ovr.py process, likewise

vars == <<joblib_ok, disk, classifier_pipeline, preloaded_models, startup,
          request, response, calls, train, ovr>>

(***************************************************************************)
(* Bounds of the model.                                                    *)
(***************************************************************************)
\* the detector reports at most this many face rectangles
MaxFaces == 2
\* percentage scores above 100 go up to 100 + 20 * MaxOver
MaxOver == 1
\* holdout accuracies are the levels 0..MaxAcc
MaxAcc == 1
\* an image folder of train_binary_ovr.py holds at most this many images
MaxImgs == 2
\* at most this many embeddings fail in a run of train_binary_ovr.py
MaxEmbedFail == 1

(***************************************************************************)
(* Values.                                                                 *)
(***************************************************************************)
\* 1.0 as a fixed-point confidence
ConfOne == 1000

\* Python None / JSON null in a field that otherwise holds a string
Null == "null"

\* a dict key that is absent
NoKey == "<missing>"

\* labels the emotion model reports; "Sad" stands for any label that is not
\* already lower case
Emotions == {"happy", "neutral", "Sad"}

\* str.lower() on those labels
Lower(s) ==
    IF s = "Sad" THEN "sad" ELSE s

\* main.py:46-51
map_deepface_emotion(deepface_emotion) ==
    Lower(deepface_emotion)

\* percentage scores of the dominant emotion
Scores == {0, 40, 100} \cup {100 + 20 * k : k \in 1..MaxOver}

\* emotion_confidence / 100.0 as a fixed-point confidence
Div100(s) ==
    (s * ConfOne) \div 100

\* min(1.0, c)
Min1(c) ==
    IF c < ConfOne THEN c ELSE ConfOne

(***************************************************************************)
(* Frames.  A frame string is classified by what the decoding calls of the *)
(* handlers do with it.                                                    *)
(***************************************************************************)
Frames == {"bad_base64", "not_image", "imdecode_raises", "image"}

\* base64.b64decode(input_data.frame): raises or returns bytes
B64Decode(frame) ==
    IF frame = "bad_base64" THEN "raise" ELSE "bytes"

\* cv2.imdecode(nparr, cv2.IMREAD_COLOR): an image, None, or cv2.error
ImDecode(frame) ==
    CASE frame = "image" -> "image"
      [] frame = "imdecode_raises" -> "raise"
      [] OTHER -> "None"

(***************************************************************************)
(* Exceptions, handler outcomes and HTTP responses.                        *)
(***************************************************************************)
HTTPException(status_code, detail) ==
    [type |-> "HTTPException", status_code |-> status_code, detail |-> detail]

OtherException(msg) ==
    [type |-> "Exception", status_code |-> 0, detail |-> msg]

\* str(e): starlette's HTTPException prints "<status_code>: <detail>"
ExcStr(e) ==
    IF e.type = "HTTPException"
    THEN CASE e.detail = "Invalid Base64" -> "400: Invalid Base64"
           [] e.detail = "Invalid frame data" -> "400: Invalid frame data"
           [] e.detail = "Failed to write temporary image"
                -> "500: Failed to write temporary image"
           [] OTHER -> e.detail
    ELSE e.detail

Return(body, made) ==
    [kind |-> "return", body |-> body, calls |-> made]

Raise(exc, made) ==
    [kind |-> "raise", exc |-> exc, calls |-> made]

\* a handler that returns None answers with the JSON body null
NoneBody == [null |-> TRUE]

\* what FastAPI sends for a handler outcome
Respond(endpoint, out) ==
    IF out.kind = "return"
    THEN [endpoint |-> endpoint, status |-> 200, detail |-> "", body |-> out.body]
    ELSE IF out.exc.type = "HTTPException"
    THEN [endpoint |-> endpoint, status |-> out.exc.status_code,
          detail |-> out.exc.detail, body |-> NoneBody]
    ELSE [endpoint |-> endpoint, status |-> 500,
          detail |-> "Internal Server Error", body |-> NoneBody]

NoResponse == [endpoint |-> "none", status |-> 0, detail |-> "", body |-> NoneBody]

(***************************************************************************)
(* Face rectangles (x, y, w, h) as detectMultiScale reports them, with     *)
(* minSize = (30, 30).                                                     *)
(***************************************************************************)
Rects == {<<0, 0, 30, 30>>, <<0, 0, 40, 40>>, <<10, 0, 40, 40>>, <<0, 0, 30, 60>>}

RECURSIVE SeqsUpTo(_, _)
SeqsUpTo(S, n) ==
    IF n = 0 THEN {<<>>}
    ELSE LET shorter == SeqsUpTo(S, n - 1) IN
         shorter \cup {Append(q, x) : q \in {p \in shorter : Len(p) = n - 1}, x \in S}

FaceLists == SeqsUpTo(Rects, MaxFaces)

Area(f) == f[3] * f[4]

\* MaxByArea with the last element of maximal key
RECURSIVE MaxByArea_last_tie(_)
MaxByArea_last_tie(faces) ==
    IF Len(faces) = 1 THEN faces[1]
    ELSE LET best == MaxByArea_last_tie(SubSeq(faces, 1, Len(faces) - 1))
             last == faces[Len(faces)] IN
         IF Area(last) >= Area(best) THEN last ELSE best

\* max(faces, key=lambda f: f[2] * f[3]): the first element of maximal key
RECURSIVE MaxByArea(_)
MaxByArea(faces) ==
    IF Len(faces) = 1 THEN faces[1]
    ELSE LET best == MaxByArea(SubSeq(faces, 1, Len(faces) - 1))
             last == faces[Len(faces)] IN
         IF Area(last) > Area(best) THEN last ELSE best

(***************************************************************************)
(* What DeepFace.analyze does: raises, or returns an empty list, a list of *)
(* one result or (older versions) a bare result dict.  Of a result the     *)
(* handlers read dominant_emotion and the entry of the emotion map under   *)
(* that label: has_score says whether the map has the entry.               *)
(***************************************************************************)
AnalysisResults ==
    [kind : {"list", "dict"}, dominant : Emotions \cup {NoKey},
     has_score : BOOLEAN, score : Scores]

Analyses ==
    {[kind |-> k, dominant |-> NoKey, has_score |-> FALSE, score |-> 0] :
        k \in {"raise", "empty_list"}}
    \cup {a \in AnalysisResults : ~a.has_score => a.score = 0}

\* the analysis of a request that never calls DeepFace.analyze
NoAnalysis == [kind |-> "raise", dominant |-> NoKey, has_score |-> FALSE, score |-> 0]

(***************************************************************************)
(* detect_emotion, main.py:52-131.                                         *)
(***************************************************************************)
\* main.py:88-92
NoFaceResult ==
    [emotion |-> "neutral", confidence |-> 0, face_detected |-> FALSE]

\* main.py:123-127
AnalysisFailedResult ==
    [emotion |-> "neutral", confidence |-> 0, face_detected |-> TRUE]

\* main.py:111  confidence = min(1.0, emotion_confidence / 100.0)
detect_confidence(emotion_confidence) ==
    Min1(Div100(emotion_confidence))

\* detect_analyze without the except clause of main.py:120: an exception of
\* the analysis leaves the inner try
detect_analyze_uncaught(roi, analysis) ==
    LET made == <<[fn |-> "DeepFace.analyze", roi |-> roi]>> IN
    CASE analysis.kind = "raise" -> Raise(OtherException("DeepFace error"), made)
      [] analysis.kind = "empty_list" -> Return(NoneBody, made)
      [] analysis.kind = "dict" -> Return(AnalysisFailedResult, made)
      [] OTHER ->
            IF analysis.dominant = NoKey \/ ~analysis.has_score
            THEN Return(AnalysisFailedResult, made)
            ELSE Return([emotion |-> map_deepface_emotion(analysis.dominant),
                         confidence |-> detect_confidence(analysis.score),
                         face_detected |-> TRUE], made)

\* main.py:100-127: the inner try block on the face region roi.  A KeyError
\* of result[0], of ['dominant_emotion'] or of the emotion map is caught by
\* the except clause like an exception of DeepFace.analyze; when the result
\* is empty the if is skipped and the function runs off its end.
detect_analyze(roi, analysis) ==
    LET made == <<[fn |-> "DeepFace.analyze", roi |-> roi]>> IN
    CASE analysis.kind = "raise" -> Return(AnalysisFailedResult, made)
      [] analysis.kind = "empty_list" -> Return(NoneBody, made)
      [] analysis.kind = "dict" -> Return(AnalysisFailedResult, made)
      [] OTHER ->
            IF analysis.dominant = NoKey \/ ~analysis.has_score
            THEN Return(AnalysisFailedResult, made)
            ELSE Return([emotion |-> map_deepface_emotion(analysis.dominant),
                         confidence |-> detect_confidence(analysis.score),
                         face_detected |-> TRUE], made)

\* detect_body without the early return of main.py:86: with no face the whole
\* frame goes to the analysis
detect_body_always_analyzes(frame, faces, analysis) ==
    IF B64Decode(frame) = "raise"
    THEN Raise(HTTPException(400, "Invalid Base64"), <<>>)
    ELSE IF ImDecode(frame) = "raise"
    THEN Raise(OtherException("cv2.error"), <<>>)
    ELSE IF ImDecode(frame) = "None"
    THEN Raise(HTTPException(400, "Invalid frame data"), <<>>)
    ELSE IF Len(faces) = 0
    THEN detect_analyze(<<0, 0, 0, 0>>, analysis)
    ELSE detect_analyze(MaxByArea(faces), analysis)

\* main.py:59-127: the body of the outer try
detect_body(frame, faces, analysis) ==
    IF B64Decode(frame) = "raise"
    THEN Raise(HTTPException(400, "Invalid Base64"), <<>>)
    ELSE IF ImDecode(frame) = "raise"
    THEN Raise(OtherException("cv2.error"), <<>>)
    ELSE IF ImDecode(frame) = "None"
    THEN Raise(HTTPException(400, "Invalid frame data"), <<>>)
    ELSE IF Len(faces) = 0
    THEN Return(NoFaceResult, <<>>)
    ELSE detect_analyze(MaxByArea(faces), analysis)

\* main.py:129-131: except Exception catches the HTTPException of the body
\* too and raises HTTPException(500, str(e)) in its place
detect_except(out) ==
    IF out.kind = "raise"
    THEN Raise(HTTPException(500, ExcStr(out.exc)), out.calls)
    ELSE out

\* main.py:52-131
detect_emotion(frame, faces, analysis) ==
    detect_except(detect_body(frame, faces, analysis))

(***************************************************************************)
(* The pipeline file.  train.py saves a dict with the keys scaler, model,  *)
(* label_encoder and model_name.  The fitted scaler and model carry the    *)
(* DeepFace model whose embeddings they were fitted on (fitted_on).        *)
(***************************************************************************)
\* train.py:116-129: the candidate classifiers in the order of the models dict
Candidates == <<"logreg", "svm", "rf", "lgb", "mlp">>

\* DeepFace models train.py's --model may name
EmbeddingModels == {"ArcFace", "Facenet"}

\* class labels of the training data (sub-folders of the data dir)
Labels == {"confusion", "laughing"}

\* train.py:151
SavedPipeline(best_name, embedding_model) ==
    [scaler |-> [fitted_on |-> embedding_model],
     model |-> [name |-> best_name, fitted_on |-> embedding_model],
     label_encoder |-> "LabelEncoder",
     model_name |-> best_name]

\* every pipeline train.py can save
TrainedPipelines ==
    {SavedPipeline(Candidates[i], m) : i \in DOMAIN Candidates, m \in EmbeddingModels}

NoFile == [file |-> "absent"]

\* a file joblib.load raises on
UnloadableFile == [file |-> "unloadable"]

\* Python None where a dict is expected
None == [none |-> TRUE]

\* dict.get(key, default)
DictGet(d, key, default) ==
    IF key \in DOMAIN d THEN d[key] ELSE default

\* load_classifier_pipeline without the joblib check of main.py:181
load_classifier_pipeline_no_joblib_check(pipeline, joblib, file) ==
    IF pipeline # None THEN pipeline
    ELSE IF file # NoFile
    THEN IF file # UnloadableFile THEN file ELSE None
    ELSE None

\* main.py:176-194: the value of the global classifier_pipeline after the
\* call, which is also the value the call returns
load_classifier_pipeline(pipeline, joblib, file) ==
    IF pipeline # None THEN pipeline
    ELSE IF ~joblib THEN None
    ELSE IF file # NoFile
    THEN IF file # UnloadableFile THEN file ELSE None
    ELSE None

(***************************************************************************)
(* predict_combined, main.py:197-295.                                      *)
(***************************************************************************)
\* what DeepFace.represent does: raises, or returns the embedding in one of
\* three formats, each of which main.py:253-258 turns into a vector
Represents == {"raise", "dict", "list", "vector"}

\* what the saved scaler, model and label encoder do with the vector: raise,
\* or predict a label with a highest class probability
Classifies ==
    {[kind |-> "raise", label |-> Null, prob |-> 0]}
    \cup [kind : {"ok"}, label : Labels, prob : {ConfOne \div 2, ConfOne}]

\* hasattr(model, 'predict_proba'): every candidate of train.py has it
HasPredictProba(model) ==
    model.name \in {Candidates[i] : i \in DOMAIN Candidates}

\* main.py:238  float(emo_map.get(deepface_emotion, 0.0)) / 100.0
predict_confidence(score) ==
    Div100(score)

\* main.py:228-242: the emotion stage
predict_deepface(analysis) ==
    LET failed == [emotion |-> "neutral", conf |-> 0] IN
    CASE analysis.kind = "raise" -> failed
      [] analysis.kind = "empty_list" -> failed
      [] OTHER ->
            [emotion |-> IF analysis.dominant = NoKey THEN "neutral"
                         ELSE analysis.dominant,
             conf |-> IF analysis.has_score THEN predict_confidence(analysis.score)
                      ELSE 0]

\* main.py:245-247
NoCustom ==
    [label |-> Null, conf |-> 0, face_detected |-> FALSE, calls |-> <<>>]

\* predict_custom with face_detected = True moved above the try of main.py:249
predict_custom_marks_face(pipeline, represent, classify) ==
    IF pipeline = None THEN NoCustom
    ELSE
      LET made == <<[fn |-> "DeepFace.represent",
                     model_name |-> DictGet(pipeline, "model_name", "ArcFace")]>> IN
      IF represent = "raise" \/ classify.kind = "raise"
      THEN [NoCustom EXCEPT !.calls = made, !.face_detected = TRUE]
      ELSE [label |-> classify.label,
            conf |-> IF HasPredictProba(DictGet(pipeline, "model", None))
                     THEN classify.prob ELSE ConfOne,
            face_detected |-> TRUE,
            calls |-> made]

\* main.py:248-281: the classifier stage
predict_custom(pipeline, represent, classify) ==
    IF pipeline = None THEN NoCustom
    ELSE
      LET made == <<[fn |-> "DeepFace.represent",
                     model_name |-> DictGet(pipeline, "model_name", "ArcFace")]>> IN
      IF represent = "raise" \/ classify.kind = "raise"
      THEN [NoCustom EXCEPT !.calls = made]
      ELSE [label |-> classify.label,
            conf |-> IF HasPredictProba(DictGet(pipeline, "model", None))
                     THEN classify.prob ELSE ConfOne,
            face_detected |-> TRUE,
            calls |-> made]

\* main.py:205-289: the body of the outer try
predict_body(pipeline, frame, imwrite_ok, analysis, represent, classify) ==
    IF B64Decode(frame) = "raise"
    THEN Raise(HTTPException(400, "Invalid Base64"), <<>>)
    ELSE IF ImDecode(frame) = "raise"
    THEN Raise(OtherException("cv2.error"), <<>>)
    ELSE IF ImDecode(frame) = "None"
    THEN Raise(HTTPException(400, "Invalid frame data"), <<>>)
    ELSE IF ~imwrite_ok
    THEN Raise(HTTPException(500, "Failed to write temporary image"), <<>>)
    ELSE
      LET df == predict_deepface(analysis)
          custom == predict_custom(pipeline, represent, classify) IN
      Return([custom_label |-> custom.label,
              custom_confidence |-> custom.conf,
              deepface_emotion |-> df.emotion,
              deepface_confidence |-> df.conf,
              face_detected |-> custom.face_detected],
             <<[fn |-> "DeepFace.analyze", img_path |-> "tmp.name"]>> \o custom.calls)

\* predict_except without the except HTTPException clause of main.py:291
predict_except_catch_all(out) ==
    IF out.kind = "raise"
    THEN Raise(HTTPException(500, ExcStr(out.exc)), out.calls)
    ELSE out

\* main.py:291-295: an HTTPException is re-raised as it is, any other
\* exception becomes HTTPException(500, str(e))
predict_except(out) ==
    IF out.kind = "raise" /\ out.exc.type # "HTTPException"
    THEN Raise(HTTPException(500, ExcStr(out.exc)), out.calls)
    ELSE out

\* main.py:197-295
predict_combined(pipeline, frame, imwrite_ok, analysis, represent, classify) ==
    predict_except(predict_body(pipeline, frame, imwrite_ok, analysis, represent, classify))

(***************************************************************************)
(* The server.  The client sends one request at a time: a frame to one of  *)
(* the two endpoints.  A handler has no await in it and runs to its end in *)
(* one step.  The inputs of a step are the frame and what each library     *)
(* call of the handler returns or raises; a call the handler does not      *)
(* reach has the fixed input NoAnalysis, <<>>, TRUE, "raise" or NoClassify.*)
(***************************************************************************)
NoClassify == [kind |-> "raise", label |-> Null, prob |-> 0]

NoRequest ==
    [endpoint |-> "none", frame |-> "image", faces |-> <<>>, analysis |-> NoAnalysis,
     imwrite_ok |-> TRUE, represent |-> "raise", classify |-> NoClassify]

\* train_binary_ovr.py:130
OvrLabels == <<"confusion", "laughing", "emptiness">>

\* the elements of a sequence
Range(q) == {q[i] : i \in DOMAIN q}

\* the train_binary_ovr.py process before it is started
OvrIdle ==
    [pc |-> "idle", args_model |-> "ArcFace",
     label_image_map |-> [l \in Range(OvrLabels) |-> <<>>],
     sampled_neutral |-> <<>>, embedded |-> {}, next |-> 1,
     datasets |-> <<>>, log |-> <<>>, models |-> {}, file |-> NoFile]

(***************************************************************************)
(* Startup, main.py:134-173.  FastAPI runs the startup handler before the  *)
(* server takes a request.                                                 *)
(***************************************************************************)
\* what DeepFace.build_model does: returns the model, or raises
Builds == {"ok", "raise"}

\* preload_deepface_models with one try around both builds
preload_deepface_models_one_try(models, arc, emo) ==
    IF arc = "raise"
    THEN [models |-> models, attempts |-> <<"ArcFace">>, raised |-> FALSE]
    ELSE [models |-> (models \cup {"ArcFace"})
                        \cup (IF emo = "ok" THEN {"Emotion"} ELSE {}),
          attempts |-> <<"ArcFace", "Emotion">>, raised |-> FALSE]

\* main.py:134-159: the keys of preloaded_models after the call, the models
\* build_model was called for, and whether an exception left the function
preload_deepface_models(models, arc, emo) ==
    LET after_arc == IF arc = "ok" THEN models \cup {"ArcFace"} ELSE models
        after_emo == IF emo = "ok" THEN after_arc \cup {"Emotion"} ELSE after_arc IN
    [models |-> after_emo, attempts |-> <<"ArcFace", "Emotion">>, raised |-> FALSE]

\* the startup handler before it has run
StartupPending ==
    [pc |-> "pending", arc |-> "ok", emo |-> "ok", attempts |-> <<>>,
     raised |-> FALSE]

\* the train.py process before it is started
TrainIdle ==
    [pc |-> "idle", args_model |-> "ArcFace", models |-> <<>>, next |-> 1,
     results |-> <<>>, log |-> <<>>, saved |-> FALSE]

Init ==
    /\ joblib_ok \in BOOLEAN
    /\ disk \in {NoFile, UnloadableFile} \cup TrainedPipelines
    /\ classifier_pipeline = None
    /\ preloaded_models = {}
    /\ startup = StartupPending
    /\ request = NoRequest
    /\ response = NoResponse
    /\ calls = <<>>
    /\ train = TrainIdle
    /\ ovr = OvrIdle

\* main.py:162-173: _on_startup loads the classifier pipeline, then preloads
\* the DeepFace models, each in a try of its own
Startup ==
    /\ startup.pc = "pending"
    /\ \E arc \in Builds, emo \in Builds :
          LET pre == preload_deepface_models(preloaded_models, arc, emo) IN
          /\ classifier_pipeline'
                = load_classifier_pipeline(classifier_pipeline, joblib_ok, disk)
          /\ preloaded_models' = pre.models
          /\ startup' = [pc |-> "done", arc |-> arc, emo |-> emo,
                         attempts |-> pre.attempts, raised |-> pre.raised]
    /\ UNCHANGED <<joblib_ok, disk, request, response, calls, train, ovr>>

\* POST /detect_emotion
DetectEmotion ==
    /\ startup.pc = "done"
    /\ response = NoResponse
    /\ \E frame \in Frames :
       \E faces \in (IF ImDecode(frame) = "image" THEN FaceLists ELSE {<<>>}) :
       \E analysis \in (IF faces # <<>> THEN Analyses ELSE {NoAnalysis}) :
          LET out == detect_emotion(frame, faces, analysis) IN
          /\ request' = [NoRequest EXCEPT !.endpoint = "detect_emotion",
                                          !.frame = frame, !.faces = faces,
                                          !.analysis = analysis]
          /\ response' = Respond("detect_emotion", out)
          /\ calls' = out.calls
    /\ UNCHANGED <<joblib_ok, disk, classifier_pipeline, preloaded_models, startup, train, ovr>>

\* POST /predict_combined
PredictCombined ==
    /\ startup.pc = "done"
    /\ response = NoResponse
    /\ LET pipeline == load_classifier_pipeline(classifier_pipeline, joblib_ok, disk) IN
       \E frame \in Frames :
       \E imwrite_ok \in (IF ImDecode(frame) = "image" THEN BOOLEAN ELSE {TRUE}) :
       \E analysis \in (IF ImDecode(frame) = "image" /\ imwrite_ok
                        THEN Analyses ELSE {NoAnalysis}) :
       \E represent \in (IF ImDecode(frame) = "image" /\ imwrite_ok /\ pipeline # None
                         THEN Represents ELSE {"raise"}) :
       \E classify \in (IF represent # "raise" THEN Classifies ELSE {NoClassify}) :
          LET out == predict_combined(pipeline, frame, imwrite_ok, analysis,
                                      represent, classify) IN
          /\ classifier_pipeline' = pipeline
          /\ request' = [endpoint |-> "predict_combined", frame |-> frame,
                         faces |-> <<>>, analysis |-> analysis,
                         imwrite_ok |-> imwrite_ok, represent |-> represent,
                         classify |-> classify]
          /\ response' = Respond("predict_combined", out)
          /\ calls' = out.calls
    /\ UNCHANGED <<joblib_ok, disk, preloaded_models, startup, train, ovr>>

\* the client takes the answer
Deliver ==
    /\ response # NoResponse
    /\ request' = NoRequest
    /\ response' = NoResponse
    /\ calls' = <<>>
    /\ UNCHANGED <<joblib_ok, disk, classifier_pipeline, preloaded_models, startup, train, ovr>>

(***************************************************************************)
(* train.py.  main() parses --model, builds the embeddings and calls       *)
(* train_and_evaluate, whose loop over the candidates is one step per      *)
(* candidate; the step of the last candidate goes on to pick and save the  *)
(* best.  results is the dict of the function in insertion order, as       *)
(* pairs <<name, acc>>; log is what the loop logged for each candidate.    *)
(***************************************************************************)
\* holdout accuracies, as levels
Accuracies == 0..MaxAcc

\* what one pass of the try block at train.py:134-143 does
Outcomes == {"fit_raises", "predict_raises", "report_raises", "ok"}

\* train.py:113-129: the keys of the models dict, in insertion order
candidate_models(has_lgb) ==
    IF has_lgb THEN Candidates
    ELSE SelectSeq(Candidates, LAMBDA name : name # "lgb")

\* train.py:134-143: results after the try block ran for the candidate name;
\* results[name] is assigned before the classification report is printed
train_one(results, name, outcome, acc) ==
    IF outcome \in {"fit_raises", "predict_raises"} THEN results
    ELSE Append(results, <<name, acc>>)

\* train.py:138 and 143: the accuracy logged (-1: none) and whether
\* 'Failed training' was logged
log_one(name, outcome, acc) ==
    [name |-> name,
     acc |-> IF outcome \in {"fit_raises", "predict_raises"} THEN -1 ELSE acc,
     failed |-> outcome # "ok"]

\* best_of with the last key of maximal accuracy
RECURSIVE best_of_last_tie(_)
best_of_last_tie(results) ==
    IF Len(results) = 0 THEN Null
    ELSE IF Len(results) = 1 THEN results[1][1]
    ELSE LET front == SubSeq(results, 1, Len(results) - 1)
             best == best_of_last_tie(front)
             bestAcc == (CHOOSE r \in {front[i] : i \in DOMAIN front} : r[1] = best)[2]
             last == results[Len(results)] IN
         IF last[2] >= bestAcc THEN last[1] ELSE best

\* train.py:146  max(results.keys(), key=lambda k: results[k][0]): the first
\* key of maximal accuracy, None for an empty dict
RECURSIVE best_of(_)
best_of(results) ==
    IF Len(results) = 0 THEN Null
    ELSE IF Len(results) = 1 THEN results[1][1]
    ELSE LET front == SubSeq(results, 1, Len(results) - 1)
             best == best_of(front)
             bestAcc == (CHOOSE r \in {front[i] : i \in DOMAIN front} : r[1] = best)[2]
             last == results[Len(results)] IN
         IF last[2] > bestAcc THEN last[1] ELSE best

\* train.py:146-155: the file after the pick
save_best(file, results, args_model) ==
    IF best_of(results) # Null
    THEN SavedPipeline(best_of(results), args_model)
    ELSE file

\* train.py:158-172 and 79-111: main() up to the loop; build_dataset raises
\* when no image could be embedded and the script ends
TrainStart ==
    /\ train.pc \in {"idle", "done"}
    /\ \E args_model \in EmbeddingModels, has_lgb \in BOOLEAN, embedded \in BOOLEAN :
          train' = IF embedded
                   THEN [pc |-> "training", args_model |-> args_model,
                         models |-> candidate_models(has_lgb), next |-> 1,
                         results |-> <<>>, log |-> <<>>, saved |-> FALSE]
                   ELSE [TrainIdle EXCEPT !.pc = "done", !.args_model = args_model]
    /\ UNCHANGED <<joblib_ok, disk, classifier_pipeline, preloaded_models, startup,
                   request, response, calls, ovr>>

\* train.py:132-155: one pass of the loop, and after the last pass the save
TrainCandidate ==
    /\ train.pc = "training"
    /\ \E outcome \in Outcomes :
       \E acc \in (IF outcome \in {"fit_raises", "predict_raises"}
                   THEN {0} ELSE Accuracies) :
          LET name == train.models[train.next]
              results == train_one(train.results, name, outcome, acc)
              log == Append(train.log, log_one(name, outcome, acc))
              last == train.next = Len(train.models) IN
          /\ train' = [train EXCEPT !.results = results, !.log = log,
                                    !.next = @ + 1,
                                    !.pc = IF last THEN "done" ELSE "training",
                                    !.saved = last /\ best_of(results) # Null]
          /\ disk' = IF last THEN save_best(disk, results, train.args_model) ELSE disk
    /\ UNCHANGED <<joblib_ok, classifier_pipeline, preloaded_models, startup,
                   request, response, calls, ovr>>

(***************************************************************************)
(* train_binary_ovr.py.  main() lists the image folders, samples the       *)
(* neutral images, extracts the embeddings and then trains one classifier  *)
(* per label: one step per pass of the loop at lines 179-216, the step of  *)
(* the last label going on to save the pipeline.  An image path is         *)
(* <<folder, n>>: the n-th image file of the folder, in sorted order.      *)
(***************************************************************************)
\* train_binary_ovr.py:37-45: the sorted image paths of a folder holding
\* count image files (0 too when the folder is missing)
collect_images_for_label(label, count) ==
    [i \in 1..count |-> <<label, i>>]

\* the sequences of n distinct elements of the set S
RECURSIVE InjSeqs(_, _)
InjSeqs(S, n) ==
    IF n = 0 THEN {<<>>}
    ELSE UNION {{Append(q, x) : x \in S \ Range(q)} : q \in InjSeqs(S, n - 1)}

\* train_binary_ovr.py:141-149: choice is what rng.choice draws when there
\* are more neutral images than neg_sample_size
sample_neutral(neutral_imgs, neg_sample_size, choice) ==
    IF Len(neutral_imgs) = 0 THEN <<>>
    ELSE IF Len(neutral_imgs) <= neg_sample_size THEN neutral_imgs
    ELSE choice

\* train_binary_ovr.py:152-157
all_needed_paths(label_image_map, sampled_neutral) ==
    UNION {Range(label_image_map[OvrLabels[i]]) : i \in DOMAIN OvrLabels}
        \cup Range(sampled_neutral)

\* train_binary_ovr.py:189-196: deduplicate while preserving order
RECURSIVE Dedup(_)
Dedup(q) ==
    IF Len(q) = 0 THEN <<>>
    ELSE LET front == Dedup(SubSeq(q, 1, Len(q) - 1))
             last == q[Len(q)] IN
         IF last \in Range(front) THEN front ELSE Append(front, last)

\* ovr_neg_paths without the 'if other_lbl == lbl: continue' of line 184
RECURSIVE ovr_neg_paths_all_labels(_, _, _, _)
ovr_neg_paths_all_labels(label_image_map, sampled_neutral, lbl, i) ==
    IF i > Len(OvrLabels) THEN sampled_neutral
    ELSE label_image_map[OvrLabels[i]]
            \o ovr_neg_paths_all_labels(label_image_map, sampled_neutral, lbl, i + 1)

\* train_binary_ovr.py:182-188: the images of the other labels from the i-th
\* label on, in the order of the dict, then the sampled neutral images
RECURSIVE ovr_neg_paths(_, _, _, _)
ovr_neg_paths(label_image_map, sampled_neutral, lbl, i) ==
    IF i > Len(OvrLabels) THEN sampled_neutral
    ELSE (IF OvrLabels[i] = lbl THEN <<>> ELSE label_image_map[OvrLabels[i]])
            \o ovr_neg_paths(label_image_map, sampled_neutral, lbl, i + 1)

\* train_binary_ovr.py:180-200: the positive and the negative paths of lbl,
\* without the paths whose embedding failed
ovr_dataset(label_image_map, sampled_neutral, embedded, lbl) ==
    [label |-> lbl,
     pos |-> SelectSeq(label_image_map[lbl], LAMBDA p : p \in embedded),
     neg |-> SelectSeq(Dedup(ovr_neg_paths(label_image_map, sampled_neutral, lbl, 1)),
                       LAMBDA p : p \in embedded)]

\* what train_single_binary (lines 85-116) does: both train_test_split calls
\* raise and the exception leaves the function, or fit, predict or the
\* report raises and it returns None, or it returns the classifier.  A
\* calibration failure is caught at line 105 and followed by predict.
OvrOutcomes == {"ok", "split_raises", "fit_raises", "predict_raises"}

\* train_binary_ovr.py:85-116: whether the call returns a classifier
train_single_binary(outcome) ==
    outcome = "ok"

\* train_binary_ovr.py:119-175: main() up to the loop.  It raises when no
\* image is found, and np.vstack raises when no embedding was extracted.
OvrStart ==
    /\ ovr.pc = "idle"
    /\ \E counts \in [Range(OvrLabels) -> 0..MaxImgs], neutral_count \in 0..MaxImgs,
          neg_sample_size \in {1, 2}, args_model \in EmbeddingModels :
          LET label_image_map ==
                  [l \in Range(OvrLabels) |-> collect_images_for_label(l, counts[l])]
              neutral_imgs == collect_images_for_label("neutral", neutral_count) IN
          \E choice \in (IF neutral_count > neg_sample_size
                         THEN InjSeqs(Range(neutral_imgs), neg_sample_size)
                         ELSE {<<>>}) :
             LET sampled_neutral == sample_neutral(neutral_imgs, neg_sample_size, choice)
                 needed == all_needed_paths(label_image_map, sampled_neutral) IN
             \E failed \in {f \in SUBSET needed : Cardinality(f) <= MaxEmbedFail} :
                ovr' = [OvrIdle EXCEPT
                          !.pc = IF needed = {} \/ needed \ failed = {}
                                 THEN "crashed" ELSE "training",
                          !.args_model = args_model,
                          !.label_image_map = label_image_map,
                          !.sampled_neutral = sampled_neutral,
                          !.embedded = needed \ failed]
    /\ UNCHANGED <<joblib_ok, disk, classifier_pipeline, preloaded_models, startup,
                   request, response, calls, train>>

\* train_binary_ovr.py:179-227: one pass of the loop, and after the last
\* pass the save
OvrLabel ==
    /\ ovr.pc = "training"
    /\ LET lbl == OvrLabels[ovr.next]
           data == ovr_dataset(ovr.label_image_map, ovr.sampled_neutral,
                               ovr.embedded, lbl)
           last == ovr.next = Len(OvrLabels) IN
       \E outcome \in (IF Len(data.pos) = 0 THEN {"ok"} ELSE OvrOutcomes) :
          IF Len(data.pos) = 0
          THEN ovr' = [ovr EXCEPT
                         !.next = @ + 1,
                         !.log = Append(@, [label |-> lbl, outcome |-> "skipped"]),
                         !.pc = IF last THEN "done" ELSE "training",
                         !.file = IF last
                                  THEN [scaler |-> [fitted_on |-> ovr.args_model],
                                        models |-> ovr.models,
                                        labels |-> OvrLabels,
                                        model_name |-> ovr.args_model]
                                  ELSE @]
          ELSE IF outcome = "split_raises"
          THEN ovr' = [ovr EXCEPT
                         !.datasets = Append(@, data),
                         !.log = Append(@, [label |-> lbl, outcome |-> "raised"]),
                         !.pc = "crashed"]
          ELSE LET models == IF train_single_binary(outcome)
                             THEN ovr.models \cup {lbl} ELSE ovr.models IN
               ovr' = [ovr EXCEPT
                         !.next = @ + 1,
                         !.datasets = Append(@, data),
                         !.log = Append(@, [label |-> lbl,
                                            outcome |-> IF train_single_binary(outcome)
                                                        THEN "trained" ELSE "failed"]),
                         !.models = models,
                         !.pc = IF last THEN "done" ELSE "training",
                         !.file = IF last
                                  THEN [scaler |-> [fitted_on |-> ovr.args_model],
                                        models |-> models,
                                        labels |-> OvrLabels,
                                        model_name |-> ovr.args_model]
                                  ELSE @]
    /\ UNCHANGED <<joblib_ok, disk, classifier_pipeline, preloaded_models, startup,
                   request, response, calls, train>>

NextOvr ==
    \/ OvrStart
    \/ OvrLabel

\* the script does not read the server's state: it starts beside a server
\* that has no pipeline file
InitOvr == Init /\ joblib_ok /\ disk = NoFile

SpecOvr == InitOvr /\ [][NextOvr]_vars

NextTrain ==
    \/ TrainStart
    \/ TrainCandidate

SpecTrain == Init /\ [][NextTrain]_vars

Next ==
    \/ Startup
    \/ DetectEmotion
    \/ PredictCombined
    \/ Deliver

Spec == Init /\ [][Next]_vars

(***************************************************************************)
(* Properties.                                                             *)
(***************************************************************************)
\* the answer of endpoint ep to the request in `request` is on its way
Answered(ep) == response.endpoint = ep

\* the frame is valid Base64 and decodes to an image
Decodable == B64Decode(request.frame) = "bytes" /\ ImDecode(request.frame) = "image"

\* the frame is not valid Base64, or its bytes decode to no image
Undecodable == B64Decode(request.frame) = "raise" \/ ImDecode(request.frame) = "None"

\* the request made the call fn
Called(fn) == \E i \in DOMAIN calls : calls[i].fn = fn

\* no classifier pipeline can be loaded: joblib is unavailable, the file is
\* missing or joblib.load fails on it
NoPipelineLoadable == ~joblib_ok \/ disk = NoFile \/ disk = UnloadableFile

\* C1: detect_emotion answers a frame that is not valid Base64, or whose
\* bytes decode to no image, with status 400.
C1_BadFrameIs400 ==
    (Answered("detect_emotion") /\ Undecodable) => response.status = 400

\* C2: every detect_emotion answer that is not an HTTP error is an object
\* with the fields emotion, confidence and face_detected, never null.
C2_DetectBodyHasThreeFields ==
    (Answered("detect_emotion") /\ response.status = 200)
        => /\ response.body # NoneBody
           /\ {"emotion", "confidence", "face_detected"} \subseteq DOMAIN response.body

\* C3: the model_name the server reads from a pipeline file that train.py's
\* train_and_evaluate wrote, and passes to DeepFace.represent, is the
\* embedding model of that training run (--model).
C3_ModelNameIsEmbeddingModel ==
    (train.pc = "done" /\ train.saved)
        => LET pipeline == load_classifier_pipeline(None, TRUE, disk)
               custom == predict_custom(pipeline, "list",
                                        [kind |-> "ok", label |-> "laughing",
                                         prob |-> ConfOne]) IN
           /\ pipeline = disk
           /\ custom.calls[1].model_name = train.args_model

\* C4: a decodable frame with no face gets exactly neutral, 0.0, false from
\* detect_emotion, and DeepFace.analyze is not called.
C4_NoFaceNeutral ==
    (Answered("detect_emotion") /\ Decodable /\ Len(request.faces) = 0)
        => /\ response.status = 200
           /\ response.body = [emotion |-> "neutral", confidence |-> 0,
                               face_detected |-> FALSE]
           /\ ~Called("DeepFace.analyze")

C4_Witness ==
    /\ Answered("detect_emotion") /\ Decodable /\ Len(request.faces) = 0
    /\ response.status = 200 /\ response.body.face_detected = FALSE

\* C5: with at least one face, an exception of the emotion analysis still
\* gives a successful answer: neutral, 0.0, face_detected true.
C5_AnalysisFailureNeutral ==
    (/\ Answered("detect_emotion") /\ Decodable
     /\ Len(request.faces) >= 1 /\ request.analysis.kind = "raise")
        => /\ response.status = 200
           /\ response.body = [emotion |-> "neutral", confidence |-> 0,
                               face_detected |-> TRUE]

C5_Witness ==
    /\ Answered("detect_emotion") /\ Decodable
    /\ Len(request.faces) >= 1 /\ request.analysis.kind = "raise"
    /\ Called("DeepFace.analyze") /\ response.body.face_detected = TRUE

\* C6: for every score s >= 0 of the dominant emotion the DeepFace confidence
\* of both endpoints lies in [0, 1]: detect_emotion's confidence and
\* predict_combined's deepface_confidence.
C6_ConfidenceInUnitRange ==
    /\ (Answered("detect_emotion") /\ response.status = 200
            /\ response.body # NoneBody)
          => (response.body.confidence >= 0 /\ response.body.confidence <= ConfOne)
    /\ (Answered("predict_combined") /\ response.status = 200)
          => /\ response.body.deepface_confidence >= 0
             /\ response.body.deepface_confidence <= ConfOne

\* C7 as stated: predict_combined answers 400 to every frame that is not
\* valid Base64 or does not decode to an image; an HTTPException raised in
\* the handler reaches the client with its status code and detail; any other
\* exception leaving the handler body becomes a 500.
C7_Original ==
    Answered("predict_combined") =>
        LET out == predict_body(classifier_pipeline, request.frame, request.imwrite_ok,
                                request.analysis, request.represent, request.classify) IN
        /\ (B64Decode(request.frame) = "raise" \/ ImDecode(request.frame) # "image")
              => response.status = 400
        /\ (out.kind = "raise" /\ out.exc.type = "HTTPException")
              => /\ response.status = out.exc.status_code
                 /\ response.detail = out.exc.detail
        /\ (out.kind = "raise" /\ out.exc.type # "HTTPException")
              => response.status = 500

\* C7 amended: predict_combined answers 400 to a frame on which b64decode
\* raises or for which cv2.imdecode returns None, and 500 to a frame on which
\* cv2.imdecode itself raises (the empty buffer); an HTTPException raised in
\* the handler reaches the client with its status code and detail; any other
\* exception leaving the handler body becomes a 500.
C7_PredictErrors ==
    Answered("predict_combined") =>
        LET out == predict_body(classifier_pipeline, request.frame, request.imwrite_ok,
                                request.analysis, request.represent, request.classify) IN
        /\ Undecodable => response.status = 400
        /\ B64Decode(request.frame) = "raise" => response.detail = "Invalid Base64"
        /\ (B64Decode(request.frame) = "bytes" /\ ImDecode(request.frame) = "None")
              => response.detail = "Invalid frame data"
        /\ (B64Decode(request.frame) = "bytes" /\ ImDecode(request.frame) = "raise")
              => /\ response.status = 500
                 /\ response.detail = "cv2.error"
        /\ (Decodable /\ ~request.imwrite_ok)
              => /\ response.status = 500
                 /\ response.detail = "Failed to write temporary image"
        /\ (out.kind = "raise" /\ out.exc.type = "HTTPException")
              => /\ response.status = out.exc.status_code
                 /\ response.detail = out.exc.detail
        /\ (out.kind = "raise" /\ out.exc.type # "HTTPException")
              => response.status = 500

C7_Witness ==
    /\ Answered("predict_combined") /\ ImDecode(request.frame) = "None"
    /\ response.status = 400 /\ response.detail = "Invalid frame data"

\* what C8 says of the body of an answer
C8_Body ==
    /\ response.status = 200
    /\ response.body.custom_label = Null
    /\ response.body.custom_confidence = 0
    /\ response.body.face_detected = FALSE
    /\ (request.analysis.kind \in {"list", "dict"} /\ request.analysis.dominant # NoKey)
          => response.body.deepface_emotion = request.analysis.dominant
    /\ (request.analysis.kind \in {"list", "dict"} /\ request.analysis.has_score)
          => response.body.deepface_confidence * 100 = request.analysis.score * ConfOne

\* C8 as stated: when no classifier pipeline can be loaded, predict_combined
\* on a decodable frame answers successfully with the emotion model's
\* deepface_emotion and deepface_confidence, custom_label null,
\* custom_confidence 0.0 and face_detected false.
C8_Original ==
    (Answered("predict_combined") /\ NoPipelineLoadable /\ Decodable) => C8_Body

\* C8 amended: the same, for a decodable frame whose temporary image file
\* cv2.imwrite writes successfully.
C8_NoPipelineStillAnswers ==
    (Answered("predict_combined") /\ NoPipelineLoadable /\ Decodable
        /\ request.imwrite_ok) => C8_Body

C8_Witness ==
    /\ Answered("predict_combined") /\ ~joblib_ok /\ disk \in TrainedPipelines
    /\ Decodable /\ request.imwrite_ok
    /\ request.analysis.kind = "list" /\ request.analysis.score = 40
    /\ response.status = 200 /\ response.body.deepface_confidence = (2 * ConfOne) \div 5

\* C9: in predict_combined neither stage fails the request.  If the analysis
\* raises, deepface_emotion is neutral and deepface_confidence 0.0 and the
\* classifier is still attempted; if the embedding or the classifier raises,
\* the answer keeps the emotion stage's values and has custom_label null,
\* custom_confidence 0.0 and face_detected false.
C9_StagesFailIndependently ==
    (Answered("predict_combined") /\ Decodable /\ request.imwrite_ok)
        => /\ response.status = 200
           /\ request.analysis.kind = "raise"
                 => /\ response.body.deepface_emotion = "neutral"
                    /\ response.body.deepface_confidence = 0
                    /\ classifier_pipeline # None => Called("DeepFace.represent")
                    /\ (classifier_pipeline # None /\ request.represent # "raise"
                           /\ request.classify.kind = "ok")
                          => /\ response.body.custom_label = request.classify.label
                             /\ response.body.face_detected = TRUE
           /\ (classifier_pipeline # None
                  /\ (request.represent = "raise" \/ request.classify.kind = "raise"))
                 => /\ response.body.custom_label = Null
                    /\ response.body.custom_confidence = 0
                    /\ response.body.face_detected = FALSE
                    /\ response.body.deepface_emotion
                          = predict_deepface(request.analysis).emotion
                    /\ response.body.deepface_confidence
                          = predict_deepface(request.analysis).conf

C9_Witness ==
    /\ Answered("predict_combined") /\ Decodable /\ request.imwrite_ok
    /\ classifier_pipeline # None
    /\ request.analysis.kind = "list" /\ request.analysis.dominant = "happy"
    /\ request.represent = "list" /\ request.classify.kind = "raise"
    /\ response.status = 200 /\ response.body.deepface_emotion = "happy"
    /\ Called("DeepFace.represent")

\* the candidates of the finished run whose holdout accuracy was computed
Evaluated == {i \in DOMAIN train.log : train.log[i].acc >= 0}

\* the candidates of the finished run whose pass of the try block raised
\* nothing ('Failed training' was not logged)
Succeeded == {i \in DOMAIN train.log : ~train.log[i].failed}

\* C10: train_and_evaluate writes the pipeline file iff at least one
\* candidate was fitted and evaluated without an exception; the saved model
\* is the earliest candidate, in the order logreg, svm, rf, lgb, mlp, among
\* the successfully trained ones of highest holdout accuracy, and a candidate
\* whose training or evaluation failed is never the saved one.
C10_SavesBestSuccessful ==
    train.pc = "done"
        => /\ train.saved <=> Succeeded # {}
           /\ train.saved =>
                \E i \in Succeeded :
                   /\ disk \in TrainedPipelines
                   /\ disk.model.name = train.log[i].name
                   /\ \A j \in Succeeded : train.log[j].acc <= train.log[i].acc
                   /\ \A j \in Succeeded :
                         train.log[j].acc = train.log[i].acc => i <= j
                   /\ \A j \in DOMAIN train.log :
                         train.log[j].failed => train.log[j].name # disk.model.name

\* What train_and_evaluate does instead: the file is written iff the holdout
\* accuracy of at least one candidate was computed, and the saved model is
\* the earliest among those of highest accuracy, whether or not its
\* classification report raised afterwards.
SavesBestEvaluated ==
    train.pc = "done"
        => /\ train.saved <=> Evaluated # {}
           /\ train.saved =>
                \E i \in Evaluated :
                   /\ disk \in TrainedPipelines
                   /\ disk.model.name = train.log[i].name
                   /\ \A j \in Evaluated : train.log[j].acc <= train.log[i].acc
                   /\ \A j \in Evaluated :
                         train.log[j].acc = train.log[i].acc => i <= j
                   /\ \A j \in DOMAIN train.log :
                         train.log[j].acc < 0 => train.log[j].name # disk.model.name

SavesBestEvaluated_Reached ==
    /\ train.pc = "done" /\ train.saved
    /\ Len(train.log) = 5
    /\ train.log[1].acc < 0
    /\ train.log[2].acc = 1 /\ train.log[3].acc = 0 /\ train.log[5].acc = 1
    /\ disk.model.name = "svm"

\* C11: startup is best-effort.  Whatever fails among the classifier load
\* and the two model builds, the startup handler completes without raising,
\* the Emotion build is attempted also when the ArcFace build failed, and
\* preloaded_models holds exactly the models that were built.
C11_StartupBestEffort ==
    startup.pc = "done"
        => /\ ~startup.raised
           /\ \E i \in DOMAIN startup.attempts : startup.attempts[i] = "Emotion"
           /\ "ArcFace" \in preloaded_models <=> startup.arc = "ok"
           /\ "Emotion" \in preloaded_models <=> startup.emo = "ok"
           /\ preloaded_models \subseteq {"ArcFace", "Emotion"}
           /\ NoPipelineLoadable <=> classifier_pipeline = None

C11_Witness ==
    /\ startup.pc = "done" /\ ~startup.raised
    /\ startup.arc = "raise" /\ startup.emo = "ok"
    /\ disk = UnloadableFile /\ joblib_ok
    /\ preloaded_models = {"Emotion"}

\* the regions DeepFace.analyze was called on for the request
AnalysedRegions ==
    {i \in DOMAIN calls : calls[i].fn = "DeepFace.analyze"}

\* C13: with one or more face rectangles detect_emotion analyses exactly one
\* of them; its area w*h is at least that of every other rectangle, and among
\* rectangles of that area it is the first in detection order.
C13_LargestFaceFirst ==
    (Answered("detect_emotion") /\ Decodable /\ Len(request.faces) >= 1)
        => /\ Cardinality(AnalysedRegions) = 1
           /\ \A c \in AnalysedRegions :
                \E i \in DOMAIN request.faces :
                   /\ calls[c].roi = request.faces[i]
                   /\ \A j \in DOMAIN request.faces :
                         request.faces[j][3] * request.faces[j][4]
                            <= request.faces[i][3] * request.faces[i][4]
                   /\ \A j \in DOMAIN request.faces :
                         (request.faces[j][3] * request.faces[j][4]
                            = request.faces[i][3] * request.faces[i][4]) => i <= j

C13_Witness ==
    /\ Answered("detect_emotion") /\ Decodable
    /\ request.faces = << <<10, 0, 40, 40>>, <<0, 0, 40, 40>> >>
    /\ Cardinality(AnalysedRegions) = 1
    /\ calls[1].roi = <<10, 0, 40, 40>>

\* the labels whose pass of the loop has run
OvrProcessed == {ovr.log[i].label : i \in DOMAIN ovr.log}

\* the embedded images of the folders in the set folders
EmbeddedOf(folders) == {p \in ovr.embedded : p[1] \in folders}

\* the sequence q holds each of its elements once
NoRepeat(q) == \A i, j \in DOMAIN q : q[i] = q[j] => i = j

\* C12: in train_binary_ovr every label of confusion, laughing, emptiness
\* with at least one embedded image is trained one-vs-rest: the class-1 rows
\* are exactly its embedded images, the class-0 rows exactly the embedded
\* images of the other two labels and the sampled neutral images, each path
\* once, and no image is in both; a label with no embedded image, or whose
\* training fails, has no entry in the saved models dict.
C12_OneVsRestDatasets ==
    /\ \A lbl \in OvrProcessed :
          EmbeddedOf({lbl}) # {}
              <=> \E i \in DOMAIN ovr.datasets : ovr.datasets[i].label = lbl
    /\ \A i \in DOMAIN ovr.datasets :
          LET d == ovr.datasets[i] IN
          /\ d.label \in Range(OvrLabels)
          /\ Range(d.pos) = EmbeddedOf({d.label})
          /\ Range(d.neg) = EmbeddedOf((Range(OvrLabels) \ {d.label}) \cup {"neutral"})
          /\ NoRepeat(d.pos) /\ NoRepeat(d.neg)
          /\ Range(d.pos) \cap Range(d.neg) = {}
          /\ \A j \in DOMAIN ovr.datasets : ovr.datasets[j].label = d.label => i = j
    /\ ovr.pc = "done"
          => /\ ovr.file # NoFile
             /\ OvrProcessed = Range(OvrLabels)
             /\ \A lbl \in Range(OvrLabels) :
                   lbl \in ovr.file.models
                      <=> /\ EmbeddedOf({lbl}) # {}
                          /\ \E k \in DOMAIN ovr.log :
                                ovr.log[k] = [label |-> lbl, outcome |-> "trained"]

C12_Witness ==
    /\ ovr.pc = "done"
    /\ Len(ovr.label_image_map["confusion"]) = 2
    /\ EmbeddedOf({"confusion"}) = {<<"confusion", 2>>}
    /\ Len(ovr.label_image_map["laughing"]) = 1
    /\ Len(ovr.label_image_map["emptiness"]) = 0
    /\ ovr.sampled_neutral = << <<"neutral", 2>> >>
    /\ ovr.datasets[1].neg = << <<"laughing", 1>>, <<"neutral", 2>> >>
    /\ ovr.file.models = {"confusion"}
    /\ \E k \in DOMAIN ovr.log : ovr.log[k] = [label |-> "laughing", outcome |-> "failed"]

====
